---- MODULE Spec2Model ----
(***************************************************************************)
(* Model of the batch engine of MAXScript-Batch-Tool.py: FileBrowser's     *)
(* processAll / processFiles / stopProcessing and the UI handlers that     *)
(* feed them.                                                              *)
(*                                                                         *)
(* The tool is single-threaded.  Other handlers run only where the code    *)
(* yields to the Qt event loop: QApplication.processEvents(), which every  *)
(* self.log(...) call ends with (line 291).  A state of the model is the   *)
(* program stopped at such a yield point (pc names it), or idle in the     *)
(* event loop; an action is the code executed from one yield point to the  *)
(* next.                                                                   *)
(***************************************************************************)
EXTENDS Integers, Sequences, FiniteSets, TLC

\* Bounds of the model (not program constants).
MaxPaths == 2    \* distinct script paths, and distinct target paths
MaxFaults == 1   \* environment deviations per run: a missing file, a failing
                 \* host operation, an abort signalled by a script

MaxSteps == 5    \* total_steps handed to updateProgress on its own
MaxElapsed == 6  \* seconds of elapsed time handed to updateProgress

ScriptPaths == 1..MaxPaths
TargetPaths == 1..MaxPaths

VARIABLES
    \* FileBrowser widgets and fields
    maxscript_list_widget,  \* paths of the MAXScript list, in display order
    max_list_widget,        \* paths of the 3ds Max list, in display order
    save_max_file,          \* the "save after processing" checkbox flag
    process_button_all,     \* Process button visible
    process_button_stop,    \* Abort button visible
    inputs_enabled,         \* lists, checkbox, browse/clear buttons enabled
    progress_bar,           \* value shown by the progress bar
    stopButtonPressed,      \* self.stopButtonPressed
    errors_occurred,        \* self.errors_occurred
    \* host runtime
    g_abortRequested,       \* runtime.g_abortRequested
    \* locals of processAll / processFiles
    max_script_files,       \* snapshot of the script list
    max_files,              \* snapshot of the target list
    save_arg,               \* processFiles' save_max_file parameter
    total_steps,
    current_step,
    ti,                     \* index of the target iteration (enumerate's i, 1-based)
    si,                     \* index of the script iteration (1-based)
    pc,                     \* yield point the run is stopped at, or "idle"
    \* history of the run in progress
    trace,                  \* host operations invoked and files found missing
    outcome,                \* terminal notification of the last run
    faults,                 \* environment deviations so far in this run
    pressed,                \* <<>> or <<where the first Abort click of the run happened>>
    observed,               \* -1 or the number of host operations invoked when a
                            \* checkpoint first read stopButtonPressed as true
    signalled,              \* -1 or the number of host operations invoked when
                            \* line 554 first read runtime.g_abortRequested as true
    leftover,               \* at the first yield of a run: a flag of an earlier
                            \* run was still set when processAll was entered
    \* locals of updateProgress
    elapsed_time,           \* whole seconds since start_time
    estimated_remaining_time

vars == <<maxscript_list_widget, max_list_widget, save_max_file,
          process_button_all, process_button_stop, inputs_enabled,
          progress_bar, stopButtonPressed, errors_occurred, g_abortRequested,
          max_script_files, max_files, save_arg, total_steps, current_step,
          ti, si, pc, trace, outcome, faults, pressed, observed, signalled,
          leftover, elapsed_time, estimated_remaining_time>>

uiVars == <<maxscript_list_widget, max_list_widget, save_max_file>>
ctlVars == <<process_button_all, process_button_stop, inputs_enabled>>
argVars == <<max_script_files, max_files, save_arg>>
timeVars == <<elapsed_time, estimated_remaining_time>>

----------------------------------------------------------------------------
\* Helpers on the history.

HostOps == {"load", "run", "save"}

Event(op, i, j, ok) == [op |-> op, i |-> i, j |-> j, ok |-> ok]

IsHostOp(e) == e.op \in HostOps

NumOps(tr) == Len(SelectSeq(tr, IsHostOp))

InSeq(x, s) == \E k \in 1..Len(s) : s[k] = x

----------------------------------------------------------------------------
\* The part of the state processFiles works on, as one record, so that the
\* straight-line code between two yield points composes.

St ==
    [pc |-> pc, ti |-> ti, si |-> si,
     total_steps |-> total_steps, current_step |-> current_step,
     stopButtonPressed |-> stopButtonPressed,
     g_abortRequested |-> g_abortRequested,
     errors_occurred |-> errors_occurred,
     progress_bar |-> progress_bar,
     trace |-> trace, outcome |-> outcome, faults |-> faults,
     observed |-> observed, signalled |-> signalled]

Commit(r) ==
    /\ pc' = r.pc
    /\ ti' = r.ti
    /\ si' = r.si
    /\ total_steps' = r.total_steps
    /\ current_step' = r.current_step
    /\ stopButtonPressed' = r.stopButtonPressed
    /\ g_abortRequested' = r.g_abortRequested
    /\ errors_occurred' = r.errors_occurred
    /\ progress_bar' = r.progress_bar
    /\ trace' = r.trace
    /\ outcome' = r.outcome
    /\ faults' = r.faults
    /\ observed' = r.observed
    /\ signalled' = r.signalled

\* What the environment may still do wrong in this run.
MayFail(r) == IF r.faults < MaxFaults THEN {TRUE, FALSE} ELSE {TRUE}

Logged(r, e) == [r EXCEPT !.trace = Append(@, e)]

\* Mutant of Faulted: the error is logged, errors_occurred is not set.
FaultedNotFlagged(r, e) ==
    [r EXCEPT !.trace = Append(@, e), !.faults = @ + 1]

\* An error branch (lines 528-530, 537-539, 546-548, 558-560, 581-583): the
\* error is logged and errors_occurred set.
Faulted(r, e) ==
    [r EXCEPT !.trace = Append(@, e), !.faults = @ + 1, !.errors_occurred = TRUE]

\* A checkpoint read stopButtonPressed as true.
Observe(r) ==
    [r EXCEPT !.observed = IF @ = -1 THEN NumOps(r.trace) ELSE @]

----------------------------------------------------------------------------
\* processFiles, lines 502-592, as the code run from one yield point on.
\* Each operator gives the set of states the run can be in at the next yield
\* point (the set is the environment's choice: a file is there or not, a host
\* operation returns or raises).

\* Lines 585-588: the loop over the targets is exhausted.
Finalize(r) ==
    {[r EXCEPT !.outcome = IF r.errors_occurred THEN "CompletedWithErrors"
                                                ELSE "Completed",
               !.pc = "finishing"]}

\* Lines 517-525: the abort branch of the start-of-target checkpoint.
AbortAtTargetStart(r) ==
    {[r EXCEPT !.stopButtonPressed = FALSE,
               !.g_abortRequested = FALSE,
               !.progress_bar = 0,
               !.outcome = "Aborted",
               !.pc = "finishing"]}

\* Lines 567-574: the abort branch of the end-of-script checkpoint.
AbortAtScriptEnd(r) ==
    {[r EXCEPT !.g_abortRequested = FALSE,
               !.progress_bar = 0,
               !.outcome = "Aborted",
               !.pc = "finishing"]}

\* Mutant of TargetHead: the start-of-target checkpoint of lines 517-525 is
\* missing.
TargetHeadNoCheckpoint(r, i) ==
    IF i > Len(max_files) THEN Finalize(r)
    ELSE { IF exists
              THEN [r EXCEPT !.ti = i, !.si = 0, !.pc = "load"]
              ELSE [Faulted(r, Event("target_missing", i, 0, FALSE))
                       EXCEPT !.ti = i, !.si = 0, !.pc = "target_error"]
           : exists \in MayFail(r) }

\* Mutant of TargetHead: the `continue` of line 530 is lost, a missing target
\* is reported and then loaded.
TargetHeadLoadsMissing(r, i) ==
    IF i > Len(max_files) THEN Finalize(r)
    ELSE IF r.stopButtonPressed THEN AbortAtTargetStart(Observe(r))
    ELSE { IF exists
              THEN [r EXCEPT !.ti = i, !.si = 0, !.pc = "load"]
              ELSE [Faulted(r, Event("target_missing", i, 0, FALSE))
                       EXCEPT !.ti = i, !.si = 0, !.pc = "load"]
           : exists \in MayFail(r) }

\* Lines 516-534: the head of the iteration for target i, up to the yield
\* before loadMaxFile (or before the next iteration, for a missing file).
TargetHead(r, i) ==
    IF i > Len(max_files) THEN Finalize(r)
    ELSE IF r.stopButtonPressed THEN AbortAtTargetStart(Observe(r))
    ELSE { IF exists
              THEN [r EXCEPT !.ti = i, !.si = 0, !.pc = "load"]
              ELSE [Faulted(r, Event("target_missing", i, 0, FALSE))
                       EXCEPT !.ti = i, !.si = 0, !.pc = "target_error"]
           : exists \in MayFail(r) }

\* Mutant of AfterScripts: line 576 without its `not self.stopButtonPressed`.
AfterScriptsSaveAlways(r) ==
    IF save_arg
       THEN {[r EXCEPT !.pc = "save"]}
       ELSE TargetHead(r, r.ti + 1)

\* Mutant of AfterScripts: line 576 also asks that no error was recorded.
AfterScriptsSaveOnlyIfClean(r) ==
    IF save_arg /\ ~r.stopButtonPressed /\ ~r.errors_occurred
       THEN {[r EXCEPT !.pc = "save"]}
       ELSE TargetHead(r, r.ti + 1)

\* Line 576 (the save decision) and what follows the script loop.
AfterScripts(r) ==
    IF save_arg /\ ~r.stopButtonPressed
       THEN {[r EXCEPT !.pc = "save"]}
       ELSE TargetHead(r, r.ti + 1)

\* Mutant of ScriptHead: the `continue` of line 548 is lost, a missing script
\* is handed to fileIn all the same.
ScriptHeadRunsMissing(r, j) ==
    IF j > Len(max_script_files) THEN AfterScripts(r)
    ELSE IF r.stopButtonPressed THEN AfterScripts(Observe(r))
    ELSE { IF exists
              THEN [r EXCEPT !.si = j, !.pc = "run"]
              ELSE [Faulted(r, Event("script_missing", r.ti, j, FALSE))
                       EXCEPT !.si = j, !.pc = "run"]
           : exists \in MayFail(r) }

\* Lines 541-552: the head of the iteration for script j of the current
\* target, up to the yield before fileIn.
ScriptHead(r, j) ==
    IF j > Len(max_script_files) THEN AfterScripts(r)
    ELSE IF r.stopButtonPressed THEN AfterScripts(Observe(r))
    ELSE { IF exists
              THEN [r EXCEPT !.si = j, !.pc = "run"]
              ELSE [Faulted(r, Event("script_missing", r.ti, j, FALSE))
                       EXCEPT !.si = j, !.pc = "script_error"]
           : exists \in MayFail(r) }

\* Mutant of LoadMaxFile: the `continue` of line 539 is lost, the scripts run
\* on a target that failed to load.
LoadMaxFileFallsThrough(r) ==
    UNION { IF ok
               THEN ScriptHead(Logged(r, Event("load", r.ti, 0, TRUE)), 1)
               ELSE ScriptHead(Faulted(r, Event("load", r.ti, 0, FALSE)), 1)
            : ok \in MayFail(r) }

\* Lines 535-539: loadMaxFile returns or raises.
LoadMaxFile(r) ==
    UNION { IF ok
               THEN ScriptHead(Logged(r, Event("load", r.ti, 0, TRUE)), 1)
               ELSE {[Faulted(r, Event("load", r.ti, 0, FALSE))
                         EXCEPT !.pc = "target_error"]}
            : ok \in MayFail(r) }

\* Line 603 and 610: the value given to the progress bar (an int widget).
ProgressValue(step, total) == (step * 100) \div total

\* secondsToHMS, lines 613-626.
SecondsToHMS(seconds) ==
    <<seconds \div 3600, (seconds % 3600) \div 60, seconds % 60>>

\* Mutant of EstimatedRemaining: the step just done is counted as remaining.
EstimatedRemainingOffByOne(step, total, elapsed) ==
    LET remaining_steps == total - step + 1
    IN  IF step > 0 THEN (remaining_steps * elapsed) \div step ELSE 0

\* updateProgress, lines 603-606, in whole seconds: the time per step is
\* elapsed / step, or 0 before the first step.
EstimatedRemaining(step, total, elapsed) ==
    LET remaining_steps == total - step
    IN  IF step > 0 THEN (remaining_steps * elapsed) \div step ELSE 0

\* Mutant of CountStep: the step counter advances by two.
CountStepTwice(r) ==
    [r EXCEPT !.current_step = @ + 2,
              !.progress_bar = ProgressValue(r.current_step + 2, r.total_steps),
              !.pc = "step_done"]

\* Lines 562-565: a script ran; count it and show the progress.
CountStep(r) ==
    [r EXCEPT !.current_step = @ + 1,
              !.progress_bar = ProgressValue(r.current_step + 1, r.total_steps),
              !.pc = "step_done"]

\* Mutant of FileIn: the `continue` of line 560 is lost, a script that raised
\* is counted as a step.
FileInCountsFailure(r) ==
    LET e(ok) == Event("run", r.ti, r.si, ok)
        returned(abort) ==
            LET q == [Logged(r, e(TRUE)) EXCEPT
                         !.g_abortRequested = @ \/ abort,
                         !.faults = IF abort THEN @ + 1 ELSE @]
            IN  IF q.g_abortRequested
                   THEN [q EXCEPT !.pc = "script_break",
                                  !.signalled = IF @ = -1 THEN NumOps(q.trace) ELSE @]
                   ELSE CountStep(q)
    IN  { returned(abort) : abort \in {b \in BOOLEAN : b => FALSE \in MayFail(r)} }
        \cup
        { CountStep(Faulted(r, e(FALSE))) : ok \in MayFail(r) \ {TRUE} }

\* Lines 553-565: fileIn returns (the script may have raised the host's abort
\* flag) or raises.
FileIn(r) ==
    LET e(ok) == Event("run", r.ti, r.si, ok)
        returned(abort) ==
            LET q == [Logged(r, e(TRUE)) EXCEPT
                         !.g_abortRequested = @ \/ abort,
                         !.faults = IF abort THEN @ + 1 ELSE @]
            IN  IF q.g_abortRequested
                   THEN [q EXCEPT !.pc = "script_break",
                                  !.signalled = IF @ = -1 THEN NumOps(q.trace) ELSE @]
                   ELSE CountStep(q)
    IN  { returned(abort) : abort \in {b \in BOOLEAN : b => FALSE \in MayFail(r)} }
        \cup
        { [Faulted(r, e(FALSE)) EXCEPT !.pc = "script_error"]
          : ok \in MayFail(r) \ {TRUE} }

\* Mutant of ScriptEnd: the script loop does not advance.
ScriptEndRepeats(r) ==
    IF r.stopButtonPressed THEN AbortAtScriptEnd(Observe(r))
    ELSE ScriptHead(r, r.si)

\* Mutant of ScriptEnd: the end-of-script checkpoint of lines 567-574 is
\* missing.
ScriptEndNoCheckpoint(r) == ScriptHead(r, r.si + 1)

\* Lines 567-574, then the next script: the end-of-script checkpoint.
ScriptEnd(r) ==
    IF r.stopButtonPressed THEN AbortAtScriptEnd(Observe(r))
    ELSE ScriptHead(r, r.si + 1)

\* Lines 580-583: saveMaxFile returns or raises.
SaveMaxFile(r) ==
    UNION { IF ok
               THEN TargetHead(Logged(r, Event("save", r.ti, 0, TRUE)), r.ti + 1)
               ELSE {[Faulted(r, Event("save", r.ti, 0, FALSE))
                         EXCEPT !.pc = "target_error"]}
            : ok \in MayFail(r) }

\* Mutant of Entry: line 507 adds the lengths.
EntryAddsLengths(r) ==
    LET total == Len(max_files) + Len(max_script_files)
    IN  IF total = 0
           THEN {[r EXCEPT !.total_steps = 0, !.outcome = "EmptyInput",
                           !.pc = "finishing"]}
           ELSE TargetHead([r EXCEPT !.total_steps = total,
                                     !.current_step = 0], 1)

\* Lines 506-514: the entry of processFiles.
Entry(r) ==
    LET total == Len(max_files) * Len(max_script_files)
    IN  IF total = 0
           THEN {[r EXCEPT !.total_steps = 0, !.outcome = "EmptyInput",
                           !.pc = "finishing"]}
           ELSE TargetHead([r EXCEPT !.total_steps = total,
                                     !.current_step = 0], 1)

----------------------------------------------------------------------------
\* Initial state: FileBrowser.__init__ (lines 84-89) and initUI.

Init ==
    /\ maxscript_list_widget = <<>>
    /\ max_list_widget = <<>>
    /\ save_max_file = FALSE
    /\ process_button_all = TRUE
    /\ process_button_stop = FALSE
    /\ inputs_enabled = TRUE
    /\ progress_bar = 0
    /\ stopButtonPressed = FALSE
    /\ errors_occurred = FALSE
    /\ g_abortRequested = FALSE
    /\ max_script_files = <<>>
    /\ max_files = <<>>
    /\ save_arg = FALSE
    /\ total_steps = 0
    /\ current_step = 0
    /\ ti = 0
    /\ si = 0
    /\ pc = "idle"
    /\ trace = <<>>
    /\ outcome = "None"
    /\ faults = 0
    /\ pressed = <<>>
    /\ observed = -1
    /\ signalled = -1
    /\ leftover = FALSE
    /\ elapsed_time = 0
    /\ estimated_remaining_time = 0

runVars == <<progress_bar, stopButtonPressed, errors_occurred, g_abortRequested,
             total_steps, current_step, ti, si, pc, trace, outcome, faults,
             observed, signalled, leftover, timeVars>>

----------------------------------------------------------------------------
\* UI handlers that edit the inputs.  They are reachable only while the
\* input controls are enabled.

\* addFilesToListWidget, lines 338-384, for one selected file.
AddFile(list, path) == IF InSeq(path, list) THEN list ELSE Append(list, path)

\* addFilesToListWidget, lines 338-384, for a batch of files: each file of
\* the batch is compared with the files the list held before the batch
\* (existing_files, line 376), not with the files the batch has added.
AddFilesToListWidget(files, list) ==
    LET IsNew(f) == ~InSeq(f, list)
    IN  list \o SelectSeq(files, IsNew)

\* The paths a list file can name, in order, repetitions included.
Batches(paths) == UNION {[1..n -> paths] : n \in 0..MaxPaths}

\* browseListFile, lines 308-324: the .ms and the .max paths of a list file
\* are added to the two lists.
BrowseListFile ==
    /\ inputs_enabled
    /\ \E ms_files \in Batches(ScriptPaths), files \in Batches(TargetPaths) :
          /\ Len(ms_files) + Len(files) > 0
          /\ maxscript_list_widget' =
                 AddFilesToListWidget(ms_files, maxscript_list_widget)
          /\ max_list_widget' = AddFilesToListWidget(files, max_list_widget)
          /\ Len(maxscript_list_widget') <= MaxPaths
          /\ Len(max_list_widget') <= MaxPaths
    /\ UNCHANGED <<save_max_file, ctlVars, argVars, runVars, pressed>>

BrowseMaxScriptFiles ==
    /\ inputs_enabled
    /\ \E p \in ScriptPaths :
          /\ maxscript_list_widget' = AddFile(maxscript_list_widget, p)
          /\ Len(maxscript_list_widget') <= MaxPaths
    /\ UNCHANGED <<max_list_widget, save_max_file, ctlVars, argVars, runVars, pressed>>

BrowseMaxFiles ==
    /\ inputs_enabled
    /\ \E p \in TargetPaths :
          /\ max_list_widget' = AddFile(max_list_widget, p)
          /\ Len(max_list_widget') <= MaxPaths
    /\ UNCHANGED <<maxscript_list_widget, save_max_file, ctlVars, argVars, runVars, pressed>>

ClearMaxScriptFiles ==
    /\ inputs_enabled
    /\ maxscript_list_widget' = <<>>
    /\ UNCHANGED <<max_list_widget, save_max_file, ctlVars, argVars, runVars, pressed>>

ClearMaxFiles ==
    /\ inputs_enabled
    /\ max_list_widget' = <<>>
    /\ UNCHANGED <<maxscript_list_widget, save_max_file, ctlVars, argVars, runVars, pressed>>

\* An internal drag-and-drop move (InternalMove, lines 56 and 216): the
\* item at index a is taken out and put back at index b.
MoveItem(list, a, b) ==
    LET rest == [k \in 1..(Len(list) - 1) |->
                    IF k < a THEN list[k] ELSE list[k + 1]]
    IN  [k \in 1..Len(list) |->
            IF k < b THEN rest[k] ELSE IF k = b THEN list[a] ELSE rest[k - 1]]

MoveMaxScriptItem ==
    /\ inputs_enabled
    /\ \E a, b \in 1..Len(maxscript_list_widget) :
          /\ a # b
          /\ maxscript_list_widget' = MoveItem(maxscript_list_widget, a, b)
    /\ UNCHANGED <<max_list_widget, save_max_file, ctlVars, argVars, runVars, pressed>>

MoveMaxItem ==
    /\ inputs_enabled
    /\ \E a, b \in 1..Len(max_list_widget) :
          /\ a # b
          /\ max_list_widget' = MoveItem(max_list_widget, a, b)
    /\ UNCHANGED <<maxscript_list_widget, save_max_file, ctlVars, argVars, runVars, pressed>>

HandleSaveMaxFile ==
    /\ inputs_enabled
    /\ \E checked \in BOOLEAN : save_max_file' = checked
    /\ UNCHANGED <<maxscript_list_widget, max_list_widget, ctlVars, argVars, runVars, pressed>>

----------------------------------------------------------------------------
\* stopProcessing, lines 420-426: the Abort button's handler.
StopProcessing ==
    /\ process_button_stop
    /\ stopButtonPressed' = TRUE
    /\ g_abortRequested' = TRUE
    /\ pressed' = IF pressed = <<>>
                     THEN <<[at |-> pc, step |-> current_step, ops |-> NumOps(trace)]>>
                     ELSE pressed
    /\ UNCHANGED <<uiVars, ctlVars, argVars, progress_bar, errors_occurred,
                   total_steps, current_step, ti, si, pc, trace, outcome,
                   faults, observed, signalled, leftover, timeVars>>

----------------------------------------------------------------------------
\* Mutant of HideElements: the Process button stays visible during a run.
HideElementsKeepsProcess ==
    [process_button_stop |-> TRUE, process_button_all |-> TRUE,
     inputs_enabled |-> FALSE]

\* Mutant of HideElements: the input controls stay enabled during a run.
HideElementsKeepsInputs ==
    [process_button_stop |-> TRUE, process_button_all |-> FALSE,
     inputs_enabled |-> TRUE]

\* hideElements, lines 444-458: the controls during a run.
HideElements ==
    [process_button_stop |-> TRUE, process_button_all |-> FALSE,
     inputs_enabled |-> FALSE]

\* Mutant of RevealeElements: the Abort button is not hidden again.
RevealeElementsKeepsAbort ==
    [process_button_stop |-> TRUE, process_button_all |-> TRUE,
     inputs_enabled |-> TRUE]

\* revealeElements, lines 460-474: the controls after a run.
RevealeElements ==
    [process_button_stop |-> FALSE, process_button_all |-> TRUE,
     inputs_enabled |-> TRUE]

SetControls(c) ==
    /\ process_button_stop' = c.process_button_stop
    /\ process_button_all' = c.process_button_all
    /\ inputs_enabled' = c.inputs_enabled

\* Mutant of ListsEmpty: `and` for the `or` of line 486.
BothListsEmpty ==
    Len(maxscript_list_widget) = 0 /\ Len(max_list_widget) = 0

\* Line 486: the validation of the input lists.
ListsEmpty ==
    Len(maxscript_list_widget) = 0 \/ Len(max_list_widget) = 0

\* Mutant of Snapshot: the items are read from the last to the first.
SnapshotReversed(list) ==
    [index \in 1..Len(list) |-> list[Len(list) + 1 - index]]

\* Lines 491-492: the paths of a list widget, item by item.
Snapshot(list) ==
    [index \in 1..Len(list) |-> list[index]]

\* Mutant of ResetFlags: the stop flag keeps the value the last run left.
ResetFlagsKeepsStop ==
    [stopButtonPressed |-> stopButtonPressed, g_abortRequested |-> FALSE,
     errors_occurred |-> FALSE]

\* Lines 482-484: processAll resets the flags of the run.
ResetFlags ==
    [stopButtonPressed |-> FALSE, g_abortRequested |-> FALSE,
     errors_occurred |-> FALSE]

\* processAll, lines 476-500, up to its first yield (the log of line 495), or
\* to its return when a list is empty.  It is the clicked handler of the
\* Process button (line 141): a click needs the button visible.
ProcessAll ==
    /\ process_button_all
    /\ stopButtonPressed' = ResetFlags.stopButtonPressed
    /\ g_abortRequested' = ResetFlags.g_abortRequested
    /\ errors_occurred' = ResetFlags.errors_occurred
    /\ trace' = <<>>
    /\ faults' = 0
    /\ pressed' = <<>>
    /\ observed' = -1
    /\ signalled' = -1
    /\ IF ListsEmpty
          THEN \* hideElements, the warning dialog, revealeElements
               /\ outcome' = "EmptyInput"
               /\ SetControls(RevealeElements)
               /\ leftover' = FALSE
               /\ UNCHANGED <<argVars, pc>>
          ELSE \* hideElements, the snapshot of the lists
               /\ outcome' = "None"
               /\ SetControls(HideElements)
               /\ max_script_files' = Snapshot(maxscript_list_widget)
               /\ max_files' = Snapshot(max_list_widget)
               /\ save_arg' = save_max_file
               /\ leftover' = (stopButtonPressed \/ g_abortRequested
                                  \/ errors_occurred)
               /\ pc' = "start"
    /\ UNCHANGED <<uiVars, progress_bar, total_steps, current_step, ti, si,
                   timeVars>>

\* The steps of processFiles, one per yield point.
Step(at, next) ==
    /\ pc = at
    /\ \E r \in next : Commit(r)
    /\ leftover' = FALSE
    /\ UNCHANGED <<uiVars, ctlVars, argVars, pressed, timeVars>>

ProcessFiles == Step("start", Entry(St))

Load == Step("load", LoadMaxFile(St))

NextTarget == Step("target_error", TargetHead(St, ti + 1))

RunScript == Step("run", FileIn(St))

NextScript == Step("script_error", ScriptHead(St, si + 1))

ScriptBreak == Step("script_break", AfterScripts(St))

StepDone == Step("step_done", ScriptEnd(St))

Save == Step("save", SaveMaxFile(St))

\* Lines 590-592 (or 510-512, or 525/574), then processAll's lines 499-500:
\* processFiles returns, the controls come back, the bar is reset.
Return ==
    /\ pc = "finishing"
    /\ pc' = "idle"
    /\ SetControls(RevealeElements)
    /\ progress_bar' = 0
    /\ max_script_files' = <<>>
    /\ max_files' = <<>>
    /\ save_arg' = FALSE
    /\ total_steps' = 0
    /\ current_step' = 0
    /\ ti' = 0
    /\ si' = 0
    /\ trace' = <<>>
    /\ faults' = 0
    /\ pressed' = <<>>
    /\ observed' = -1
    /\ signalled' = -1
    /\ leftover' = FALSE
    /\ UNCHANGED <<uiVars, stopButtonPressed, errors_occurred,
                   g_abortRequested, outcome, timeVars>>

Next ==
    \/ BrowseMaxScriptFiles
    \/ BrowseMaxFiles
    \/ ClearMaxScriptFiles
    \/ ClearMaxFiles
    \/ MoveMaxScriptItem
    \/ MoveMaxItem
    \/ HandleSaveMaxFile
    \/ StopProcessing
    \/ ProcessAll
    \/ ProcessFiles
    \/ Load
    \/ NextTarget
    \/ RunScript
    \/ NextScript
    \/ ScriptBreak
    \/ StepDone
    \/ Save
    \/ Return

Spec == Init /\ [][Next]_vars

\* A run on its way: processEvents returns and processFiles goes on from
\* the yield point it stopped at.
RunStep ==
    \/ ProcessFiles
    \/ Load
    \/ NextTarget
    \/ RunScript
    \/ NextScript
    \/ ScriptBreak
    \/ StepDone
    \/ Save

\* The tool when every host operation returns.
FairSpec == Spec /\ WF_vars(RunStep)

\* The tool with its list files.  Spec leaves them out: the steps of a run
\* go by the positions in the snapshots, whatever the paths at them; a list
\* file is what can put one path at two positions.
ListFileNext == Next \/ BrowseListFile

ListFileSpec == Init /\ [][ListFileNext]_vars

----------------------------------------------------------------------------
\* updateProgress on its own: the function applied to every step count of a
\* run of total_steps steps, at any elapsed time.

ProgressInit ==
    /\ maxscript_list_widget = <<>>
    /\ max_list_widget = <<>>
    /\ save_max_file = FALSE
    /\ process_button_all = FALSE
    /\ process_button_stop = TRUE
    /\ inputs_enabled = FALSE
    /\ progress_bar = 0
    /\ stopButtonPressed = FALSE
    /\ errors_occurred = FALSE
    /\ g_abortRequested = FALSE
    /\ max_script_files = <<>>
    /\ max_files = <<>>
    /\ save_arg = FALSE
    /\ total_steps \in 1..MaxSteps
    /\ current_step = 0
    /\ ti = 0
    /\ si = 0
    /\ pc = "step_done"
    /\ trace = <<>>
    /\ outcome = "None"
    /\ faults = 0
    /\ pressed = <<>>
    /\ observed = -1
    /\ signalled = -1
    /\ leftover = FALSE
    /\ elapsed_time = 0
    /\ estimated_remaining_time = 0

\* time.time() - start_time grows between two calls.
TimePasses ==
    /\ elapsed_time < MaxElapsed
    /\ elapsed_time' = elapsed_time + 1
    /\ UNCHANGED <<uiVars, ctlVars, argVars, progress_bar, stopButtonPressed,
                   errors_occurred, g_abortRequested, total_steps,
                   current_step, ti, si, pc, trace, outcome, faults, pressed,
                   observed, signalled, leftover, estimated_remaining_time>>

\* updateProgress, lines 594-611, called with the step counter as it is or
\* after the increment of line 562.
UpdateProgress ==
    /\ \E step \in {current_step, current_step + 1} :
          /\ step <= total_steps
          /\ current_step' = step
          /\ progress_bar' = ProgressValue(step, total_steps)
          /\ estimated_remaining_time' =
                 EstimatedRemaining(step, total_steps, elapsed_time)
    /\ UNCHANGED <<uiVars, ctlVars, argVars, stopButtonPressed,
                   errors_occurred, g_abortRequested, total_steps, ti, si, pc,
                   trace, outcome, faults, pressed, observed, signalled,
                   leftover, elapsed_time>>

ProgressNext == TimePasses \/ UpdateProgress

ProgressSpec == ProgressInit /\ [][ProgressNext]_vars

----------------------------------------------------------------------------
\* Vocabulary of the properties.

NumTargets == Len(max_files)
NumScripts == Len(max_script_files)

\* The run has reached its terminal notification and is about to return.
Finalized == pc = "finishing"

\* The Abort button was clicked at yield point `at` (first click of the run).
PressedAt(at) == pressed # <<>> /\ pressed[1].at = at

NoAbortRequested == pressed = <<>>

Positions == 1..Len(trace)

IsRun(e) == e.op = "run"
IsAttempt(e) == e.op \in {"run", "script_missing"}
IsVisit(e) == e.op \in {"load", "target_missing"}

\* Yield points directly followed by a checkpoint that finalizes the run:
\* before the first target (line 495, then 517), after the progress update of
\* a step (lines 564-565, then 567).
AbortingYields == {"start", "step_done"}

\* After the event at position p, which closed the iteration of target i
\* without entering its script loop, the loop went on to target i + 1, unless
\* a checkpoint read the stop flag.
ProceedsToNextTarget(p) ==
    LET i == trace[p].i
    IN  IF p < Len(trace)
           THEN trace[p + 1].i = i + 1 /\ IsVisit(trace[p + 1])
           ELSE \/ pc = "target_error" /\ ti = i
                \/ pc = "load" /\ ti = i + 1
                \/ pc = "finishing" /\ i = NumTargets /\ outcome = "CompletedWithErrors"
                \/ observed # -1

\* C1 as stated: if the stop flag becomes true after step k has completed
\* (0 <= k < m*n), while the loop is still running, the run terminates as
\* Aborted with currentStep = k and no load, run or save is invoked after
\* that point.
C1_AbortAfterStepK_AsStated ==
    (/\ pressed # <<>>
     /\ pressed[1].at # "finishing"
     /\ pressed[1].step < NumTargets * NumScripts)
    => /\ NumOps(trace) = pressed[1].ops
       /\ Finalized => outcome = "Aborted" /\ current_step = pressed[1].step

\* C1 amended: if the stop flag becomes true at the yield point that directly
\* follows the completion of step k (the progress update of step k, or the
\* start of the run for k = 0), 0 <= k < m*n, the run finalizes as Aborted
\* with currentStep = k and no load, run or save is invoked after that point.
C1_AbortAtCheckpointYield ==
    (/\ pressed # <<>>
     /\ pressed[1].at \in AbortingYields
     /\ pressed[1].step < NumTargets * NumScripts)
    => /\ NumOps(trace) = pressed[1].ops
       /\ Finalized => outcome = "Aborted" /\ current_step = pressed[1].step

\* C1 witness: the spec's scenario, abort right after run(A,T1), step 1 of 4.
C1_Witness ==
    /\ Finalized
    /\ PressedAt("step_done")
    /\ pressed[1].step = 1
    /\ total_steps = 4
    /\ outcome = "Aborted"
    /\ current_step = 1

\* C2: once a checkpoint has read the stop flag as true, no load, run or save
\* is invoked during the rest of the run.
C2_NoOpsAfterObservedAbort ==
    observed # -1 => NumOps(trace) = observed

\* C2 witness: the start-of-script checkpoint read the flag in a run that
\* saves its targets, and the run went on to its end without saving.
C2_Witness ==
    /\ Finalized
    /\ observed = 1
    /\ save_arg
    /\ outcome = "Completed"
    /\ NumOps(trace) = 1

\* C3: where the run operation of a script raises, errorsOccurred becomes
\* true, currentStep is not incremented for that script (it counts no more
\* than the run operations that returned), and the iteration of the next
\* script of the same target is entered: that script is run or found missing,
\* unless its checkpoint reads the stop flag.
C3_RunFailureIsolated ==
    \A p \in Positions :
        (IsRun(trace[p]) /\ ~trace[p].ok) =>
            LET i == trace[p].i
                j == trace[p].j
            IN  /\ errors_occurred
                /\ current_step <=
                     Cardinality({q \in Positions : IsRun(trace[q]) /\ trace[q].ok})
                /\ p = Len(trace) =>
                      \/ pc = "script_error" /\ ti = i /\ si = j
                      \/ j < NumScripts /\ pc = "run" /\ ti = i /\ si = j + 1
                      \/ j = NumScripts
                      \/ observed # -1
                /\ (p < Len(trace) /\ j < NumScripts) =>
                      \/ /\ IsAttempt(trace[p + 1])
                         /\ trace[p + 1].i = i
                         /\ trace[p + 1].j = j + 1
                      \/ observed # -1

\* C3 witness: run(A,T1) raised and run(B,T1) was invoked next.
C3_Witness ==
    /\ Len(trace) >= 3
    /\ trace[2] = Event("run", 1, 1, FALSE)
    /\ trace[3] = Event("run", 1, 2, TRUE)
    /\ current_step = 1
    /\ pc = "step_done"

\* C4: if a target path does not exist when its iteration starts, no load,
\* run or save is invoked for that target, errorsOccurred becomes true, and
\* the loop proceeds to the next target.
C4_MissingTargetSkipped ==
    \A p \in Positions :
        trace[p].op = "target_missing" =>
            /\ \A q \in Positions :
                  IsHostOp(trace[q]) => trace[q].i # trace[p].i
            /\ errors_occurred
            /\ ProceedsToNextTarget(p)

\* C4 witness: T1 was missing and T2 was loaded next.
C4_Witness ==
    /\ Len(trace) >= 2
    /\ trace[1] = Event("target_missing", 1, 0, FALSE)
    /\ trace[2] = Event("load", 2, 0, TRUE)

\* C5: if load(target) raises, no run and no save is invoked for that
\* target, errorsOccurred becomes true, and the following targets are still
\* processed.
C5_LoadFailureSkipsTarget ==
    \A p \in Positions :
        (trace[p].op = "load" /\ ~trace[p].ok) =>
            /\ \A q \in Positions :
                  trace[q].op \in {"run", "save"} => trace[q].i # trace[p].i
            /\ errors_occurred
            /\ ProceedsToNextTarget(p)

\* C5 witness: load(T1) raised, T2 was loaded and a script run on it.
C5_Witness ==
    /\ Len(trace) >= 3
    /\ trace[1] = Event("load", 1, 0, FALSE)
    /\ trace[2] = Event("load", 2, 0, TRUE)
    /\ trace[3] = Event("run", 2, 1, TRUE)

\* C6: starting a run while the script list or the target list is empty ends
\* in the EmptyInput outcome at once, without any load, run or save.
C6_EmptyInputNoOps ==
    [][ (/\ pc = "idle"
         /\ process_button_all
         /\ Len(maxscript_list_widget) = 0 \/ Len(max_list_widget) = 0
         /\ uiVars' = uiVars)
        => /\ outcome' = "EmptyInput"
           /\ pc' = "idle"
           /\ trace' = <<>>
           /\ process_button_all' ]_vars

\* C6 witness: a run was started with targets but no script.
C6_Witness ==
    /\ outcome = "EmptyInput"
    /\ pc = "idle"
    /\ Len(maxscript_list_widget) = 0
    /\ Len(max_list_widget) > 0
    /\ ~errors_occurred

FullySuccessful ==
    /\ faults = 0
    /\ NoAbortRequested
    /\ \A p \in Positions : trace[p].ok

\* C7: for non-empty sequences totalSteps = m*n; currentStep only ever grows,
\* by exactly 1 at a time; and a fully successful run finalizes with
\* currentStep = m*n (so it grew exactly m*n times).
C7_StepCount ==
    /\ [](pc \notin {"idle", "start"} =>
            /\ total_steps = NumTargets * NumScripts
            /\ total_steps > 0)
    /\ [](Finalized /\ FullySuccessful =>
            /\ current_step = NumTargets * NumScripts
            /\ Cardinality({q \in Positions : IsRun(trace[q])}) = current_step)
    /\ [][ (pc # "idle" /\ pc' # "idle") =>
              \/ current_step' = current_step
              \/ current_step' = current_step + 1 ]_vars

\* C7 witness: 2 scripts and 2 targets, all steps done.
C7_Witness ==
    /\ Finalized
    /\ FullySuccessful
    /\ NumTargets = 2
    /\ NumScripts = 2
    /\ current_step = 4

\* The host operations of the trace, by path.
PathTrace ==
    [p \in Positions |->
        <<trace[p].op, max_files[trace[p].i],
          IF trace[p].j = 0 THEN 0 ELSE max_script_files[trace[p].j]>>]

RECURSIVE RunsOf(_, _)
RunsOf(target, j) ==
    IF j > Len(maxscript_list_widget) THEN <<>>
    ELSE <<<<"run", target, maxscript_list_widget[j]>>>> \o RunsOf(target, j + 1)

RECURSIVE ExpectedFrom(_)
ExpectedFrom(i) ==
    IF i > Len(max_list_widget) THEN <<>>
    ELSE <<<<"load", max_list_widget[i], 0>>>>
         \o RunsOf(max_list_widget[i], 1)
         \o <<<<"save", max_list_widget[i], 0>>>>
         \o ExpectedFrom(i + 1)

\* C8: with saveAfterEach, every operation succeeding and no abort, the host
\* operations are exactly, for each target of the list in order: load, run of
\* each script of the list in order, save; the outcome is Completed.
C8_SuccessfulTrace ==
    (Finalized /\ save_arg /\ FullySuccessful) =>
        /\ PathTrace = ExpectedFrom(1)
        /\ outcome = "Completed"

\* C8 witness: two scripts and two targets, the targets not in path order.
C8_Witness ==
    /\ Finalized
    /\ save_arg
    /\ FullySuccessful
    /\ max_list_widget = <<2, 1>>
    /\ Len(maxscript_list_widget) = 2
    /\ Len(trace) = 8

\* C9: with saveAfterEach and no abort requested, every target whose load
\* succeeded is saved exactly once, after its last script attempt, whatever
\* scripts failed or were missing; and a run in which a run operation failed
\* finalizes as CompletedWithErrors with errorsOccurred true.
C9_SaveDespiteScriptErrors ==
    (Finalized /\ save_arg /\ NoAbortRequested) =>
        /\ \A p \in Positions :
              (trace[p].op = "load" /\ trace[p].ok) =>
                 /\ Cardinality({q \in Positions :
                        trace[q].op = "save" /\ trace[q].i = trace[p].i}) = 1
                 /\ \A q, a \in Positions :
                        (/\ trace[q].op = "save"
                         /\ trace[q].i = trace[p].i
                         /\ IsAttempt(trace[a])
                         /\ trace[a].i = trace[p].i) => a < q
        /\ (\E p \in Positions : IsRun(trace[p]) /\ ~trace[p].ok) =>
              /\ outcome = "CompletedWithErrors"
              /\ errors_occurred

\* C9 witness: the spec's scenario, run(B,T1) failed and save(T1) followed.
C9_Witness ==
    /\ Finalized
    /\ save_arg
    /\ NoAbortRequested
    /\ Len(trace) = 8
    /\ trace[3] = Event("run", 1, 2, FALSE)
    /\ trace[4] = Event("save", 1, 0, TRUE)
    /\ outcome = "CompletedWithErrors"

\* C10 as stated: on every path that finalizes a run as Aborted, that
\* finalization has reset the tool's stop flag and the host's abort flag.
C10_AbortResetsFlags ==
    [][ (outcome # "Aborted" /\ outcome' = "Aborted") =>
           /\ ~stopButtonPressed'
           /\ ~g_abortRequested' ]_vars

\* C11 as stated: if the host's abort flag is true after a run operation
\* returns (line 554), with or without a click on Abort, no further load, run
\* or save is invoked in that run and the run finalizes as Aborted.
C11_HostAbortStopsRun ==
    signalled # -1 =>
        /\ NumOps(trace) = signalled
        /\ Finalized => outcome = "Aborted"

\* C12: processAll is entered only from the idle event loop: at every yield
\* point of a run the Process button, its only trigger, is hidden, and no
\* step takes a run in progress back to the start of a run.
C12_NoConcurrentRuns ==
    /\ [](pc # "idle" => ~process_button_all)
    /\ [][ (pc' = "start" /\ pc # "start") => pc = "idle" ]_vars

\* C12 witness: a UI event (the Abort click) was handled at a yield point
\* inside a run, where the Process button is hidden.
C12_Witness ==
    /\ pc = "run"
    /\ pressed # <<>>
    /\ ~process_button_all

\* C13: whenever the tool is back in the event loop after a run, whatever
\* the terminal outcome, the progress bar shows 0, the Process button is
\* visible, the Abort button hidden and the input controls enabled.
C13_ControlsRestored ==
    pc = "idle" =>
        /\ progress_bar = 0
        /\ process_button_all
        /\ ~process_button_stop
        /\ inputs_enabled

\* C13 witness: back in the event loop after an aborted run.
C13_Witness ==
    /\ pc = "idle"
    /\ outcome = "Aborted"
    /\ progress_bar = 0
    /\ process_button_all
    /\ ~process_button_stop
    /\ inputs_enabled

\* C14 as stated: every run in which an error was recorded emits the
\* cumulative 'completed with errors' warning when it ends, whatever the
\* terminal outcome.
C14_WarningWheneverErrors ==
    (Finalized /\ errors_occurred) => outcome = "CompletedWithErrors"

CountOp(o) == Cardinality({p \in Positions : trace[p].op = o})

OkLoads == {p \in Positions : trace[p].op = "load" /\ trace[p].ok}

\* Every target of the run was found missing at its check (line 527).
TargetsAllMissing ==
    /\ NumTargets > 0
    /\ CountOp("target_missing") = NumTargets

\* Every script was found missing at each of its checks (line 545): once
\* per script for every target that was loaded.
ScriptsAllMissing ==
    /\ OkLoads # {}
    /\ CountOp("script_missing") = Cardinality(OkLoads) * NumScripts

ErrorRecorded == \E p \in Positions : ~trace[p].ok

\* C16: during a run errors_occurred never goes from true to false; it is
\* true exactly when a missing target or script or a failed load, run or
\* save has been recorded; a failure does not end the loop: a run that is
\* not aborted has visited every target, and it finalizes as
\* CompletedWithErrors if an error was recorded, otherwise as Completed.
C16_ErrorsSetOnce ==
    /\ [][ (pc # "idle" /\ pc' # "idle" /\ errors_occurred)
              => errors_occurred' ]_vars
    /\ [](pc # "idle" => (errors_occurred <=> ErrorRecorded))
    /\ []((Finalized /\ outcome # "Aborted") =>
             /\ outcome = IF ErrorRecorded THEN "CompletedWithErrors"
                                           ELSE "Completed"
             /\ CountOp("load") + CountOp("target_missing") = NumTargets)

\* C16 witness: a run with a recorded failure went on with the loop and
\* completed with errors.
C16_Witness ==
    /\ Finalized
    /\ outcome = "CompletedWithErrors"
    /\ errors_occurred
    /\ \E p \in Positions : ~trace[p].ok /\ p < Len(trace)

\* The run is past the entry of processFiles, where total_steps is computed.
InLoop == pc \notin {"idle", "start"}

\* C17: in every state of a run 0 <= current_step <= total_steps, and
\* total_steps keeps the value |targets| * |scripts| computed at the entry
\* of processFiles.
C17_StepBounds ==
    /\ [](pc # "idle" => (0 <= current_step /\ current_step <= total_steps))
    /\ [](InLoop => total_steps = NumTargets * NumScripts)
    /\ [][ (InLoop /\ pc' # "idle") => total_steps' = total_steps ]_vars

\* C17 witness: the last step of a run of four steps has been counted.
C17_Witness ==
    /\ pc = "step_done"
    /\ total_steps = 4
    /\ current_step = total_steps

\* C18: every progress update shows percent = current_step * 100 /
\* total_steps rounded down, between 0 and 100; percent never decreases from
\* one update to the next; and the estimated remaining time is 0 (shown as
\* 00:00:00) when current_step = 0 and when current_step = total_steps.
C18_ProgressArithmetic ==
    /\ [](/\ progress_bar * total_steps <= current_step * 100
          /\ current_step * 100 < (progress_bar + 1) * total_steps
          /\ 0 <= progress_bar
          /\ progress_bar <= 100)
    /\ [][ progress_bar' >= progress_bar ]_vars
    /\ [](current_step \in {0, total_steps} =>
             /\ estimated_remaining_time = 0
             /\ SecondsToHMS(estimated_remaining_time) = <<0, 0, 0>>)

\* C18 witness: the update for the last of several steps, some seconds into
\* the run.
C18_Witness ==
    /\ total_steps > 1
    /\ current_step = total_steps
    /\ elapsed_time > 1
    /\ progress_bar = 100
    /\ estimated_remaining_time = 0

\* C19: from its start to its end a run keeps the script sequence, the
\* target sequence and the save flag it was started with; no handler that
\* runs at a yield point edits the lists or the checkbox, the input controls
\* being disabled; every recorded operation is on an element of the
\* snapshots, and a save is invoked only when the snapshotted flag is set.
C19_SnapshotUnchanged ==
    /\ [][ (pc # "idle" /\ pc' # "idle") =>
              (argVars' = argVars /\ uiVars' = uiVars) ]_vars
    /\ [](pc # "idle" => ~inputs_enabled)
    /\ [](\A p \in Positions :
             /\ trace[p].i \in 1..NumTargets
             /\ trace[p].j \in 0..NumScripts
             /\ trace[p].op = "save" => save_arg)

\* C19 witness: a run over two targets with the save flag set, past its
\* first save, with a UI event (the Abort click) handled at a yield point.
C19_Witness ==
    /\ pc \notin {"idle", "finishing"}
    /\ pressed # <<>>
    /\ NumTargets = 2
    /\ save_arg
    /\ CountOp("save") >= 1
    /\ max_files = max_list_widget

\* C20 as stated: a run in which some checkpoint, the start-of-script one
\* included, read the stop flag as true has the terminal outcome Aborted.
C20_ObservedStopEndsAborted ==
    (Finalized /\ observed # -1) => outcome = "Aborted"

\* C21: after the first Abort click of a run, handled at whatever yield
\* point, at most one more host operation (the load, run or save the run was
\* about to issue) is invoked in that run.
C21_AbortBoundedResponse ==
    pressed # <<>> => NumOps(trace) <= pressed[1].ops + 1

\* C21 witness: Abort was clicked with a host operation about to be issued,
\* that one operation was invoked, and the run ended as Aborted.
C21_Witness ==
    /\ Finalized
    /\ outcome = "Aborted"
    /\ pressed # <<>>
    /\ pressed[1].at \in {"load", "run", "save"}
    /\ NumOps(trace) = pressed[1].ops + 1

OkRuns == {p \in Positions : trace[p].op = "run" /\ trace[p].ok}

\* C22 as stated: at every point of a run current_step is the number of run
\* operations that have returned without error so far, one during which an
\* abort was requested included.
C22_StepsCountOkRuns ==
    pc # "idle" => current_step = Cardinality(OkRuns)

\* C23 as stated: in every run no load, save or run is invoked twice for the
\* same target (or target and script); a run or save on a target comes after
\* a successful load of it in this run; a save comes after the last run
\* attempt for its target, and only when the save flag is set.
C23_OpsOncePerTarget ==
    /\ \A p, q \in Positions :
          (p < q /\ IsHostOp(trace[p])) => PathTrace[p] # PathTrace[q]
    /\ \A q \in Positions :
          trace[q].op \in {"run", "save"} =>
              \E p \in 1..(q - 1) :
                  /\ trace[p].op = "load"
                  /\ trace[p].ok
                  /\ trace[p].i = trace[q].i
    /\ \A q \in Positions :
          trace[q].op = "save" =>
              /\ save_arg
              /\ \A p \in Positions :
                    (IsAttempt(trace[p]) /\ trace[p].i = trace[q].i) => p < q

\* C24: whatever the flags an earlier run left, a run starts with the stop
\* flag, the host's abort flag and errors_occurred reset: at the first yield
\* they are false unless Abort was clicked in this run; during a run the
\* stop flag is true only after a click of this run, and only such a run
\* ends as Aborted.
C24_RunStartsClean ==
    /\ (pc = "start" /\ NoAbortRequested) =>
           (~stopButtonPressed /\ ~g_abortRequested /\ ~errors_occurred)
    /\ (pc # "idle" /\ stopButtonPressed) => ~NoAbortRequested
    /\ (pc # "idle" /\ g_abortRequested) => (~NoAbortRequested \/ signalled # -1)
    /\ (Finalized /\ outcome = "Aborted") => ~NoAbortRequested

\* C24 witness: a run that followed a run which left a flag set has started
\* with the three flags reset.
C24_Witness ==
    /\ pc = "start"
    /\ leftover
    /\ ~stopButtonPressed
    /\ ~g_abortRequested
    /\ ~errors_occurred

\* C25: with every host operation returning, a started run reaches a
\* terminal state; the state is one of Completed, CompletedWithErrors and
\* Aborted, set once, at the end of processFiles (EmptyInput is the outcome
\* of a processAll that returns at once, on an empty list); the run invokes
\* at most n loads, n * m runs and n saves for n targets and m scripts.
C25_RunTerminates ==
    /\ (pc = "start") ~> Finalized
    /\ [](Finalized => outcome \in {"Completed", "CompletedWithErrors", "Aborted"})
    /\ [](pc \notin {"idle", "finishing"} => outcome = "None")
    /\ [][ Finalized => outcome' = outcome ]_vars
    /\ [][ (pc = "idle" /\ pc' = "idle" /\ outcome' # outcome) =>
              (ListsEmpty /\ outcome' = "EmptyInput") ]_vars
    /\ [](pc # "idle" =>
             /\ CountOp("load") <= NumTargets
             /\ CountOp("run") <= NumTargets * NumScripts
             /\ CountOp("save") <= NumTargets)

\* C25 witness: a run of two targets and two scripts that ended with every
\* load, run and save the lists allow.
C25_Witness ==
    /\ Finalized
    /\ outcome = "Completed"
    /\ NumTargets = 2
    /\ NumScripts = 2
    /\ CountOp("load") = 2
    /\ CountOp("run") = 4
    /\ CountOp("save") = 2

====
